---- MODULE Spec2Model ----
(***************************************************************************)
(* Model of the structure-inference engine of app/document_parser.py:      *)
(* the span merger, the threshold inferencer, the hierarchy enforcer of    *)
(* identify_headings and the section materializer.                         *)
(*                                                                         *)
(* Lengths are in 1/10000 pt (Unit), so that every product with 0.9 and    *)
(* every sum with 2.5, 1.5, ... of the source is an exact integer.         *)
(* A text is the sequence of its whitespace-separated words, so that       *)
(* a + " " + b is a \o b and len(text.split()) is Len(text).               *)
(***************************************************************************)
EXTENDS Integers, Sequences, FiniteSets, TLC

VARIABLES
    pc,                       \* position of the run
    raw_detected_headings,    \* identify_headings: the heading candidates
    idx,                      \* index of the candidate the enforcement loop is at
    final_structured_outline, \* identify_headings: outline before de-duplication
    last_h1, last_h2, last_h3,\* identify_headings: the three anchors
    deduplicated_outline,     \* identify_headings: the returned outline
    all_font_sizes,           \* identify_headings: how often each merged-line size occurs
    relevant_sizes,           \* identify_headings: frequent sizes >= 10, descending
    thresholds,               \* identify_headings: title_size, h1_size, h2_size, h3_size
    floored,                  \* the thresholds as they were right after the floors
    page_data,                \* merge_heading_spans: the spans of the page
    merged_texts,             \* merge_heading_spans: the merged lines so far
    i, j,                     \* merge_heading_spans: the scan indices (from 1)
    current,                  \* merge_heading_spans: the span merged last
    merged,                   \* merge_heading_spans: merged_text, merged_bbox, ...
    consumed,                 \* per merged line, the indices of the spans it consumed
    run,                      \* 1: the merge of the page, 2: the merge of its own output
    first_output,             \* the merged lines of run 1
    pages_data,               \* extract_structured_sections: per page, its spans
    title,                    \* extract_structured_sections: the detected title
    outline,                  \* extract_structured_sections: the returned outline
    section_markers,          \* extract_structured_sections: the section markers
    marker_i,                 \* index of the marker the content loop is at (from 1)
    structured_sections,      \* extract_structured_sections: the sections so far
    gathered,                 \* per marker done, the span instances its content holds
    merged_lines,             \* identify_headings: merged_pages_data[0]
    line_i,                   \* index of the page-0 line the title scan is at (from 1)
    title_text,               \* identify_headings: the title
    text_info,                \* identify_headings: the merged line being classified
    potential_level,          \* identify_headings: its level, "None" if it has none
    assigned_by,              \* the branch of the classifier that gave the level
    query_text,               \* PersonaAnalyzer: the words of the query text
    query_keywords,           \* PersonaAnalyzer: the keywords
    sections,                 \* rank_sections: the sections to rank
    sections_with_scores,     \* rank_sections: the sections with their scores
    ranked_sections,          \* rank_sections: the sorted sections
    input_pdf_files,          \* run_solution: the PDF files of the input directory
    doc_i,                    \* index of the file the parse loop is at (from 1)
    all_raw_extracted_sections, \* run_solution: the sections of the files parsed so far
    reports                   \* the report files written, in order

outlineVars == <<raw_detected_headings, idx, final_structured_outline,
                 last_h1, last_h2, last_h3, deduplicated_outline>>

thresholdVars == <<all_font_sizes, relevant_sizes, thresholds, floored>>

mergeVars == <<page_data, merged_texts, i, j, current, merged, consumed, run,
               first_output>>

sectionVars == <<pages_data, title, outline, section_markers, marker_i,
                 structured_sections,
                 gathered>>

headingVars == <<merged_lines, line_i, title_text, text_info, potential_level,
                 assigned_by>>

rankVars == <<query_text, query_keywords, sections, sections_with_scores, ranked_sections>>

batchVars == <<input_pdf_files, doc_i, all_raw_extracted_sections, reports>>

mainVars == <<rankVars, batchVars>>

parserVars == <<outlineVars, thresholdVars, mergeVars, sectionVars, headingVars>>

vars == <<pc, outlineVars, thresholdVars, mergeVars, sectionVars, headingVars, mainVars>>

NoThresholds == [title |-> 0, h1 |-> 0, h2 |-> 0, h3 |-> 0]

OutlineIdle ==
    /\ raw_detected_headings = <<>>
    /\ idx = 1
    /\ final_structured_outline = <<>>
    /\ last_h1 = [page |-> -1, y0 |-> -1]
    /\ last_h2 = [page |-> -1, y0 |-> -1]
    /\ last_h3 = [page |-> -1, y0 |-> -1]
    /\ deduplicated_outline = <<>>

ThresholdsIdle ==
    /\ all_font_sizes = <<>>
    /\ relevant_sizes = <<>>
    /\ thresholds = NoThresholds
    /\ floored = NoThresholds

NoSpan == [text |-> <<>>]

MergeIdle ==
    /\ page_data = <<>>
    /\ merged_texts = <<>>
    /\ i = 1
    /\ j = 1
    /\ current = NoSpan
    /\ merged = NoSpan
    /\ consumed = <<>>
    /\ run = 1
    /\ first_output = <<>>

SectionsIdle ==
    /\ pages_data = <<>>
    /\ title = <<>>
    /\ outline = <<>>
    /\ section_markers = <<>>
    /\ marker_i = 1
    /\ structured_sections = <<>>
    /\ gathered = <<>>

NoLine == [text |-> <<>>]

HeadingIdle ==
    /\ merged_lines = <<>>
    /\ line_i = 1
    /\ title_text = <<>>
    /\ text_info = NoLine
    /\ potential_level = "None"
    /\ assigned_by = "none"

RankIdle ==
    /\ query_text = <<>>
    /\ query_keywords = <<>>
    /\ sections = <<>>
    /\ sections_with_scores = <<>>
    /\ ranked_sections = <<>>

BatchIdle ==
    /\ input_pdf_files = <<>>
    /\ doc_i = 1
    /\ all_raw_extracted_sections = <<>>
    /\ reports = <<>>

----------------------------------------------------------------------------
(* Sequence helpers *)

Last(s) == s[Len(s)]

Range(s) == {s[u] : u \in 1..Len(s)}

----------------------------------------------------------------------------
(* Heading candidates and the hierarchy enforcer (identify_headings)        *)

MaxCands == 3
MaxLines == 5

Levels == {"H1", "H2", "H3"}
HeadingTexts == {<<"Intro">>, <<"Scope">>}
Pages == {0, 1}
Y0s == {100, 300}
LeftMargin == 72
LineStep == 40

NoAnchor == [page |-> -1, y0 |-> -1]

Triple(e) == <<e.text, e.page, e.level>>

DistinctTriples(s) ==
    \A u, v \in 1..Len(s) : u # v => Triple(s[u]) # Triple(s[v])

\* the classification loop visits the pages in order
PageMajor(s) == \A u, v \in 1..Len(s) : u < v => s[u].page <= s[v].page

Candidates ==
    [level : Levels, text : HeadingTexts, page : Pages, y0 : Y0s, x0 : {LeftMargin}]

\* candidates of any layout, as the classification loop can leave them
IsLayout(s) == DistinctTriples(s) /\ PageMajor(s)

\* candidates of one page in reading order, one per line, made from the
\* (level, text) pairs of the lines
ReadingOrder(lt) ==
    [u \in DOMAIN lt |->
        [level |-> lt[u][1], text |-> lt[u][2], page |-> 0,
         y0 |-> u * LineStep, x0 |-> LeftMargin]]

SortKeyLE(a, b) ==
    \/ a.page < b.page
    \/ a.page = b.page /\ a.y0 < b.y0
    \/ a.page = b.page /\ a.y0 = b.y0 /\ a.x0 <= b.x0

RECURSIVE InsertSorted(_, _)
InsertSorted(s, h) ==
    IF s = <<>> THEN <<h>>
    ELSE IF SortKeyLE(Last(s), h) THEN Append(s, h)
    ELSE Append(InsertSorted(SubSeq(s, 1, Len(s) - 1), h), Last(s))

RECURSIVE StableSort(_)
StableSort(s) ==
    IF s = <<>> THEN <<>>
    ELSE InsertSorted(StableSort(SubSeq(s, 1, Len(s) - 1)), Last(s))

UnsortedHeadings(s) == s

SortHeadings(s) == StableSort(s)

LowerDownThePage(h, anchor) == h.y0 > anchor.y0

After(h, anchor) ==
    \/ h.page > anchor.page
    \/ h.page = anchor.page /\ h.y0 > anchor.y0

AnchorOf(h) == [page |-> h.page, y0 |-> h.y0]

\* src is the index of the candidate the entry was made from; the source
\* keeps only level, text and page
Entry(level, h, u) == [level |-> level, text |-> h.text, page |-> h.page, src |-> u]

IsImmediateRepeat(entries, h) ==
    /\ entries # <<>>
    /\ Last(entries).text = h.text
    /\ Last(entries).page = h.page
    /\ Last(entries).level = h.level

AcceptsH1(h, a1) == After(h, a1)

AcceptsH2(h, a1, a2) ==
    /\ a1.page # -1
    /\ After(h, a1)
    /\ After(h, a2)

PromotesH2(h, entries, a2) == entries = <<>> /\ After(h, a2)

AcceptsH3Unanchored(h, a2, a3) ==
    /\ After(h, a2)
    /\ After(h, a3)

AcceptsH3(h, a2, a3) ==
    /\ a2.page # -1
    /\ After(h, a2)
    /\ After(h, a3)

PromotesH3UnderH2(h, a1, a2, a3) ==
    /\ a1.page # -1
    /\ a2.page # -1
    /\ After(h, a1)
    /\ After(h, a3)

PromotesH3ToH2(h, a1, a2, a3) ==
    /\ a1.page # -1
    /\ a2.page = -1
    /\ After(h, a1)
    /\ After(h, a3)

PromotesH3ToH1(h, entries, a3) == entries = <<>> /\ After(h, a3)

RECURSIVE DedupFrom(_, _, _)
DedupFrom(s, u, seen) ==
    IF u > Len(s) THEN <<>>
    ELSE IF Triple(s[u]) \in seen THEN DedupFrom(s, u + 1, seen)
    ELSE <<s[u]>> \o DedupFrom(s, u + 1, seen \cup {Triple(s[u])})

KeepAllEntries(s) == s

DedupOutline(s) == DedupFrom(s, 1, {})

InitOutline ==
    /\ pc = "sort"
    /\ \/ \E n \in 0..MaxCands :
              \E s \in [1..n -> Candidates] :
                  IsLayout(s) /\ raw_detected_headings = s
       \/ \E lt \in [1..MaxLines -> Levels \X HeadingTexts] :
              /\ \A u, v \in 1..MaxLines : u # v => lt[u] # lt[v]
              /\ raw_detected_headings = ReadingOrder(lt)
    /\ idx = 1
    /\ final_structured_outline = <<>>
    /\ last_h1 = NoAnchor
    /\ last_h2 = NoAnchor
    /\ last_h3 = NoAnchor
    /\ deduplicated_outline = <<>>
    /\ ThresholdsIdle
    /\ MergeIdle
    /\ SectionsIdle
    /\ HeadingIdle
    /\ RankIdle
    /\ BatchIdle

SortCandidates ==
    /\ pc = "sort"
    /\ raw_detected_headings' = SortHeadings(raw_detected_headings)
    /\ pc' = "enforce"
    /\ UNCHANGED <<idx, final_structured_outline, last_h1, last_h2, last_h3,
                   deduplicated_outline, thresholdVars, mergeVars, sectionVars, headingVars, mainVars>>

Current == raw_detected_headings[idx]

InLoop == pc = "enforce" /\ idx <= Len(raw_detected_headings)

Advance ==
    /\ idx' = idx + 1
    /\ UNCHANGED <<pc, raw_detected_headings, deduplicated_outline, thresholdVars, mergeVars, sectionVars, headingVars, mainVars>>

SkipRepeat ==
    /\ InLoop
    /\ IsImmediateRepeat(final_structured_outline, Current)
    /\ Advance
    /\ UNCHANGED <<final_structured_outline, last_h1, last_h2, last_h3>>

AcceptH1 ==
    /\ InLoop
    /\ ~IsImmediateRepeat(final_structured_outline, Current)
    /\ Current.level = "H1"
    /\ AcceptsH1(Current, last_h1)
    /\ final_structured_outline' = Append(final_structured_outline, Entry("H1", Current, idx))
    /\ last_h1' = AnchorOf(Current)
    /\ last_h2' = NoAnchor
    /\ last_h3' = NoAnchor
    /\ Advance

AcceptH2 ==
    /\ InLoop
    /\ ~IsImmediateRepeat(final_structured_outline, Current)
    /\ Current.level = "H2"
    /\ AcceptsH2(Current, last_h1, last_h2)
    /\ final_structured_outline' = Append(final_structured_outline, Entry("H2", Current, idx))
    /\ last_h2' = AnchorOf(Current)
    /\ last_h3' = NoAnchor
    /\ Advance
    /\ UNCHANGED last_h1

PromoteH2ToH1 ==
    /\ InLoop
    /\ ~IsImmediateRepeat(final_structured_outline, Current)
    /\ Current.level = "H2"
    /\ ~AcceptsH2(Current, last_h1, last_h2)
    /\ PromotesH2(Current, final_structured_outline, last_h2)
    /\ final_structured_outline' = Append(final_structured_outline, Entry("H1", Current, idx))
    /\ last_h1' = AnchorOf(Current)
    /\ Advance
    /\ UNCHANGED <<last_h2, last_h3>>

AcceptH3 ==
    /\ InLoop
    /\ ~IsImmediateRepeat(final_structured_outline, Current)
    /\ Current.level = "H3"
    /\ AcceptsH3(Current, last_h2, last_h3)
    /\ final_structured_outline' = Append(final_structured_outline, Entry("H3", Current, idx))
    /\ last_h3' = AnchorOf(Current)
    /\ Advance
    /\ UNCHANGED <<last_h1, last_h2>>

PromoteH3ToH2 ==
    /\ InLoop
    /\ ~IsImmediateRepeat(final_structured_outline, Current)
    /\ Current.level = "H3"
    /\ ~AcceptsH3(Current, last_h2, last_h3)
    /\ PromotesH3ToH2(Current, last_h1, last_h2, last_h3)
    /\ final_structured_outline' = Append(final_structured_outline, Entry("H2", Current, idx))
    /\ last_h2' = AnchorOf(Current)
    /\ last_h3' = NoAnchor
    /\ Advance
    /\ UNCHANGED last_h1

PromoteH3ToH1 ==
    /\ InLoop
    /\ ~IsImmediateRepeat(final_structured_outline, Current)
    /\ Current.level = "H3"
    /\ ~AcceptsH3(Current, last_h2, last_h3)
    /\ ~PromotesH3ToH2(Current, last_h1, last_h2, last_h3)
    /\ PromotesH3ToH1(Current, final_structured_outline, last_h3)
    /\ final_structured_outline' = Append(final_structured_outline, Entry("H1", Current, idx))
    /\ last_h1' = AnchorOf(Current)
    /\ Advance
    /\ UNCHANGED <<last_h2, last_h3>>

RejectCandidate ==
    /\ InLoop
    /\ ~IsImmediateRepeat(final_structured_outline, Current)
    /\ Current.level = "H1" => ~AcceptsH1(Current, last_h1)
    /\ Current.level = "H2" =>
          /\ ~AcceptsH2(Current, last_h1, last_h2)
          /\ ~PromotesH2(Current, final_structured_outline, last_h2)
    /\ Current.level = "H3" =>
          /\ ~AcceptsH3(Current, last_h2, last_h3)
          /\ ~PromotesH3ToH2(Current, last_h1, last_h2, last_h3)
          /\ ~PromotesH3ToH1(Current, final_structured_outline, last_h3)
    /\ Advance
    /\ UNCHANGED <<final_structured_outline, last_h1, last_h2, last_h3>>

DeduplicateOutline ==
    /\ pc = "enforce"
    /\ idx > Len(raw_detected_headings)
    /\ deduplicated_outline' = DedupOutline(final_structured_outline)
    /\ pc' = "returned"
    /\ UNCHANGED <<raw_detected_headings, idx, final_structured_outline,
                   last_h1, last_h2, last_h3, thresholdVars, mergeVars, sectionVars, headingVars, mainVars>>

NextOutline ==
    \/ SortCandidates
    \/ SkipRepeat
    \/ AcceptH1
    \/ AcceptH2
    \/ PromoteH2ToH1
    \/ AcceptH3
    \/ PromoteH3ToH2
    \/ PromoteH3ToH1
    \/ RejectCandidate
    \/ DeduplicateOutline

SpecOutline == InitOutline /\ [][NextOutline]_vars

----------------------------------------------------------------------------
(* Properties of the returned outline *)

Returned == pc = "returned"

LevelAt(u) == deduplicated_outline[u].level

OutlineIdx == 1..Len(deduplicated_outline)

\* the (page, y0) position of the candidate an entry was made from
PosLE(e, f) ==
    LET a == raw_detected_headings[e.src]
        b == raw_detected_headings[f.src]
    IN  a.page < b.page \/ (a.page = b.page /\ a.y0 <= b.y0)

\* C1: in the returned outline every H3 entry has some H2 entry at an earlier
\* index and every H2 entry has some H1 entry at an earlier index, promoted
\* entries counting at their promoted level.
C1_HierarchyWellFormed ==
    Returned =>
        \A u \in OutlineIdx :
            /\ LevelAt(u) = "H3" => \E v \in 1..(u - 1) : LevelAt(v) = "H2"
            /\ LevelAt(u) = "H2" => \E v \in 1..(u - 1) : LevelAt(v) = "H1"

C1_Witness ==
    /\ Returned
    /\ \E u, v \in OutlineIdx :
          /\ LevelAt(u) = "H3"
          /\ LevelAt(v) = "H2"
          /\ raw_detected_headings[deduplicated_outline[v].src].level = "H3"

\* C2: in the returned outline every H3 entry has an H2 entry between it and
\* the nearest preceding H1 entry, and every H2 entry has a preceding H1 entry.
C2_NoOrphanSubLevel ==
    Returned =>
        \A u \in OutlineIdx :
            /\ LevelAt(u) = "H3" =>
                  \E v \in 1..(u - 1) :
                      /\ LevelAt(v) = "H2"
                      /\ \A k \in (v + 1)..(u - 1) : LevelAt(k) # "H1"
            /\ LevelAt(u) = "H2" => \E v \in 1..(u - 1) : LevelAt(v) = "H1"

\* C3: the returned outline is non-decreasing in the (page, y0) position of
\* the candidates its entries were made from.
C3_OutlineMonotone ==
    Returned =>
        \A u, v \in OutlineIdx :
            u < v => PosLE(deduplicated_outline[u], deduplicated_outline[v])

C3_Witness ==
    /\ Returned
    /\ \E u, v \in OutlineIdx :
          /\ u < v
          /\ deduplicated_outline[u].page < deduplicated_outline[v].page
    /\ \E u, v \in OutlineIdx :
          /\ u < v
          /\ deduplicated_outline[u].page = deduplicated_outline[v].page

\* C4: no two entries of the returned outline share (text, page, level); of
\* the entries of the enforcement pass with the same triple the first one is
\* kept, every triple is kept, and the kept entries are in their old order.
C4_OutlineUnique ==
    Returned =>
        /\ \A u, v \in OutlineIdx :
              u # v => Triple(deduplicated_outline[u]) # Triple(deduplicated_outline[v])
        /\ \A u, v \in OutlineIdx :
              u < v => deduplicated_outline[u].src < deduplicated_outline[v].src
        /\ \A e \in Range(final_structured_outline) :
              \E r \in Range(deduplicated_outline) :
                  Triple(r) = Triple(e) /\ r.src <= e.src
        /\ Range(deduplicated_outline) \subseteq Range(final_structured_outline)

C4_Witness ==
    /\ Returned
    /\ Len(deduplicated_outline) >= 2
    /\ Len(deduplicated_outline) < Len(final_structured_outline)

\* the index of the last H1 entry of the outline of the enforcement pass
LastH1Index ==
    CHOOSE u \in 1..Len(final_structured_outline) :
        /\ final_structured_outline[u].level = "H1"
        /\ \A v \in (u + 1)..Len(final_structured_outline) :
              final_structured_outline[v].level # "H1"

\* the outline has an H1 entry, no H2 entry follows the last one, and the
\* candidate lies strictly after the candidate that entry was made from
OpensSubLevel(h) ==
    /\ \E u \in 1..Len(final_structured_outline) :
          final_structured_outline[u].level = "H1"
    /\ \A v \in (LastH1Index + 1)..Len(final_structured_outline) :
          final_structured_outline[v].level # "H2"
    /\ After(h, raw_detected_headings[final_structured_outline[LastH1Index].src])

\* C16: a step of the enforcement pass on an H3 candidate appends it with
\* level H1 if the outline is empty; if the candidate lies strictly after the
\* last appended H1 and no H2 was appended since, the step appends it with
\* level H2, makes it the H2 anchor and resets the H3 anchor.
C16_PromotionOfH3 ==
    [][ (InLoop /\ Current.level = "H3") =>
            /\ final_structured_outline = <<>> =>
                   final_structured_outline' = <<Entry("H1", Current, idx)>>
            /\ (final_structured_outline # <<>> /\ OpensSubLevel(Current)) =>
                   /\ final_structured_outline' =
                          Append(final_structured_outline, Entry("H2", Current, idx))
                   /\ last_h2' = AnchorOf(Current)
                   /\ last_h3' = NoAnchor ]_vars

\* right after an H3 candidate was promoted to H1 and a second one, further
\* down, was promoted to H2 under it
C16_Witness ==
    /\ pc = "enforce"
    /\ Len(final_structured_outline) = 2
    /\ idx = 3
    /\ final_structured_outline[1].level = "H1"
    /\ raw_detected_headings[final_structured_outline[1].src].level = "H3"
    /\ final_structured_outline[2].level = "H2"
    /\ raw_detected_headings[final_structured_outline[2].src].level = "H3"
    /\ last_h2 = AnchorOf(raw_detected_headings[2])
    /\ last_h3 = NoAnchor

DistinctPositions(s) ==
    \A u, v \in 1..Len(s) : u # v => AnchorOf(s[u]) # AnchorOf(s[v])

\* C20: when the sorted candidates have pairwise different (page, y0), every
\* step of the enforcement pass either appends the candidate to the outline,
\* at its own level or at a higher one, or skips it because it has the text,
\* page and level of the last entry.
C20_NoSilentLoss ==
    [][ (InLoop /\ DistinctPositions(raw_detected_headings)) =>
            \/ /\ IsImmediateRepeat(final_structured_outline, Current)
               /\ final_structured_outline' = final_structured_outline
            \/ \E level \in Levels :
                  final_structured_outline' =
                      Append(final_structured_outline, Entry(level, Current, idx)) ]_vars

\* candidates on two pages at pairwise different positions, all of them
\* appended, one of them promoted, the last one higher up its page than the
\* one before it
C20_Witness ==
    /\ pc = "returned"
    /\ DistinctPositions(raw_detected_headings)
    /\ Len(raw_detected_headings) >= 3
    /\ Len(final_structured_outline) = Len(raw_detected_headings)
    /\ \E u \in 1..Len(final_structured_outline) :
          final_structured_outline[u].level # raw_detected_headings[u].level
    /\ \E u \in 2..Len(raw_detected_headings) :
          /\ raw_detected_headings[u].page > raw_detected_headings[u - 1].page
          /\ raw_detected_headings[u].y0 < raw_detected_headings[u - 1].y0

----------------------------------------------------------------------------
(* The threshold inferencer (identify_headings)                             *)

MaxCount == 2

Unit == 10000

Max(a, b) == IF a >= b THEN a ELSE b

Min(a, b) == IF a <= b THEN a ELSE b

\* the font sizes of the merged lines, in 1/100 pt as extract_text_with_metadata
\* leaves them; none of them is a tie of the rounding to 0.1
FontSizes == {950, 1096, 1104, 1700, 1710, 1820, 1990, 3000}

\* round(size, 1) of a size in 1/100 pt, in 1/10 pt
Round1(size) ==
    LET q == size \div 10
        r == size % 10
    IN  IF r < 5 THEN q
        ELSE IF r > 5 THEN q + 1
        ELSE IF q % 2 = 0 THEN q ELSE q + 1

\* font_size_counts[s] for a rounded size s in 1/10 pt
RECURSIVE SumCounts(_, _)
SumCounts(counts, S) ==
    IF S = {} THEN 0
    ELSE LET x == CHOOSE y \in S : TRUE
         IN  counts[x] + SumCounts(counts, S \ {x})

FontSizeCount(counts, s) ==
    SumCounts(counts, {x \in DOMAIN counts : Round1(x) = s})

RoundedSizes(counts) == {Round1(x) : x \in {y \in DOMAIN counts : counts[y] > 0}}

TenPt == 100

RECURSIVE SortedDescending(_)
SortedDescending(S) ==
    IF S = {} THEN <<>>
    ELSE LET m == CHOOSE x \in S : \A y \in S : y <= x
         IN  <<m * (Unit \div 10)>> \o SortedDescending(S \ {m})

RelevantSizes(counts) ==
    SortedDescending({s \in RoundedSizes(counts) :
                         s >= TenPt /\ FontSizeCount(counts, s) > 1})

NinetyPercent(x) == (x * 9) \div 10

DefaultTitle == 240000
DefaultH1 == 180000
DefaultH2 == 140000
DefaultH3 == 120000

SeedThresholds(rel) ==
    LET t  == IF rel # <<>> THEN rel[1] ELSE DefaultTitle
        a  == IF Len(rel) > 1 THEN rel[2]
              ELSE IF t # 0 THEN NinetyPercent(t) ELSE DefaultH1
        b  == IF Len(rel) > 2 THEN rel[3]
              ELSE IF a # 0 THEN NinetyPercent(a) ELSE DefaultH2
        c  == IF Len(rel) > 3 THEN rel[4]
              ELSE IF b # 0 THEN NinetyPercent(b) ELSE DefaultH3
    IN  [title |-> t, h1 |-> a, h2 |-> b, h3 |-> c]

TitleFloor == 200000
H1Floor == 160000
H2Floor == 130000
H3Floor == 110000

CapAt(x, floor) == Min(x, floor)

ApplyFloor(x, floor) == Max(x, floor)

TitleTrigger == 20000
TitleGap == 25000
LevelTrigger == 10000
LevelGap == 15000

\* if upper <= lower + trigger: upper = lower + gap
PushUp(upper, lower, trigger, gap) ==
    IF upper <= lower + trigger THEN lower + gap ELSE upper

\* the non-empty collections of merged-line font sizes, each size at most n times
Histograms(n) == {c \in [FontSizes -> 0..n] : \E x \in FontSizes : c[x] > 0}

InitThresholds ==
    /\ pc = "seed"
    /\ all_font_sizes \in Histograms(MaxCount)
    /\ relevant_sizes = <<>>
    /\ thresholds = NoThresholds
    /\ floored = NoThresholds
    /\ OutlineIdle
    /\ MergeIdle
    /\ SectionsIdle
    /\ HeadingIdle
    /\ RankIdle
    /\ BatchIdle

SeedFromHistogram ==
    /\ pc = "seed"
    /\ relevant_sizes' = RelevantSizes(all_font_sizes)
    /\ thresholds' = SeedThresholds(RelevantSizes(all_font_sizes))
    /\ pc' = "floors"
    /\ UNCHANGED <<all_font_sizes, floored, outlineVars, mergeVars, sectionVars, headingVars, mainVars>>

EnforceMinimums ==
    /\ pc = "floors"
    /\ thresholds' = [title |-> ApplyFloor(thresholds.title, TitleFloor),
                      h1    |-> ApplyFloor(thresholds.h1, H1Floor),
                      h2    |-> ApplyFloor(thresholds.h2, H2Floor),
                      h3    |-> ApplyFloor(thresholds.h3, H3Floor)]
    /\ floored' = thresholds'
    /\ pc' = "adjust_title"
    /\ UNCHANGED <<all_font_sizes, relevant_sizes, outlineVars, mergeVars, sectionVars, headingVars, mainVars>>

AdjustTitle ==
    /\ pc = "adjust_title"
    /\ thresholds' = [thresholds EXCEPT
                        !.title = PushUp(thresholds.title, thresholds.h1, TitleTrigger, TitleGap)]
    /\ pc' = "adjust_h1"
    /\ UNCHANGED <<all_font_sizes, relevant_sizes, floored, outlineVars, mergeVars, sectionVars, headingVars, mainVars>>

AdjustH1 ==
    /\ pc = "adjust_h1"
    /\ thresholds' = [thresholds EXCEPT
                        !.h1 = PushUp(thresholds.h1, thresholds.h2, LevelTrigger, LevelGap)]
    /\ pc' = "adjust_h2"
    /\ UNCHANGED <<all_font_sizes, relevant_sizes, floored, outlineVars, mergeVars, sectionVars, headingVars, mainVars>>

AdjustH2 ==
    /\ pc = "adjust_h2"
    /\ thresholds' = [thresholds EXCEPT
                        !.h2 = PushUp(thresholds.h2, thresholds.h3, LevelTrigger, LevelGap)]
    /\ pc' = "thresholds"
    /\ UNCHANGED <<all_font_sizes, relevant_sizes, floored, outlineVars, mergeVars, sectionVars, headingVars, mainVars>>

NextThresholds ==
    \/ SeedFromHistogram
    \/ EnforceMinimums
    \/ AdjustTitle
    \/ AdjustH1
    \/ AdjustH2

SpecThresholds == InitThresholds /\ [][NextThresholds]_vars

Inferred == pc = "thresholds"

\* C5: the inferred thresholds are strictly decreasing,
\* title_size > h1_size > h2_size > h3_size.
C5_ThresholdOrdering ==
    Inferred =>
        /\ thresholds.title > thresholds.h1
        /\ thresholds.h1 > thresholds.h2
        /\ thresholds.h2 > thresholds.h3

\* C6: the inferred thresholds keep the three gaps, title_size >= h1_size + 2.5,
\* h1_size >= h2_size + 1.5 and h2_size >= h3_size + 1.5.
C6_ThresholdGaps ==
    Inferred =>
        /\ thresholds.title >= thresholds.h1 + TitleGap
        /\ thresholds.h1 >= thresholds.h2 + LevelGap
        /\ thresholds.h2 >= thresholds.h3 + LevelGap

\* C7: the inferred thresholds are at least 20.0, 16.0, 13.0 and 11.0, and
\* from the floors on no threshold is below the value the floors gave it.
C7_ThresholdFloors ==
    /\ Inferred =>
          /\ thresholds.title >= TitleFloor
          /\ thresholds.h1 >= H1Floor
          /\ thresholds.h2 >= H2Floor
          /\ thresholds.h3 >= H3Floor
    /\ pc \in {"adjust_title", "adjust_h1", "adjust_h2", "thresholds"} =>
          /\ thresholds.title >= floored.title
          /\ thresholds.h1 >= floored.h1
          /\ thresholds.h2 >= floored.h2
          /\ thresholds.h3 >= floored.h3

C7_Witness ==
    /\ Inferred
    /\ relevant_sizes # <<>>
    /\ relevant_sizes[1] < TitleFloor
    /\ floored.title = TitleFloor
    /\ thresholds.title > floored.title

----------------------------------------------------------------------------
(* The span merger (merge_heading_spans)                                    *)
(* Font sizes are in 1/100 pt, coordinates in pt.                           *)

MaxSpans == 3

Abs(x) == IF x < 0 THEN -x ELSE x

LongText == [k \in 1..25 |-> "word"]

\* the words that end in one of . ! ?
SentenceEnds == {"map."}

\* the shapes a span of the page has: text, font size, bold flag, left edge, width
SpanKinds ==
    { [text |-> <<"Day", "1:">>, font_size |-> 1600, is_bold |-> TRUE, x0 |-> 72, width |-> 60],
      [text |-> <<"Arrival", "and", "City", "Tour">>, font_size |-> 1610, is_bold |-> TRUE,
       x0 |-> 72, width |-> 150],
      [text |-> <<"Overview">>, font_size |-> 1600, is_bold |-> TRUE, x0 |-> 62, width |-> 80],
      [text |-> <<"Notes">>, font_size |-> 1600, is_bold |-> TRUE, x0 |-> 110, width |-> 50],
      [text |-> <<"Bring", "a", "map.">>, font_size |-> 1600, is_bold |-> FALSE, x0 |-> 72,
       width |-> 90],
      [text |-> <<"Packing", "list">>, font_size |-> 1200, is_bold |-> FALSE, x0 |-> 72,
       width |-> 70],
      [text |-> LongText, font_size |-> 1600, is_bold |-> FALSE, x0 |-> 72, width |-> 400] }

\* the distance from the bottom of a span to the top of the next one
Gaps == {0, 6, 30}
TopOfPage == 80
SpanHeight == 14

MakeSpan(kind, top) ==
    [text |-> kind.text, font_size |-> kind.font_size, is_bold |-> kind.is_bold,
     page |-> 0, x0 |-> kind.x0, y0 |-> top, x1 |-> kind.x0 + kind.width,
     y1 |-> top + SpanHeight]

RECURSIVE LayOut(_, _)
LayOut(kinds, gaps) ==
    IF kinds = <<>> THEN <<>>
    ELSE IF Len(kinds) = 1 THEN <<MakeSpan(kinds[1], TopOfPage)>>
    ELSE LET n    == Len(kinds)
             prev == LayOut(SubSeq(kinds, 1, n - 1), SubSeq(gaps, 1, n - 1))
         IN  Append(prev, MakeSpan(kinds[n], prev[n - 1].y1 + gaps[n]))

line_height(span) == span.y1 - span.y0

EndsSentence(text) == text # <<>> /\ Last(text) \in SentenceEnds

is_font_size_match(next_span, m) == Abs(next_span.font_size - m.font_size) < 50

is_vertical_proximity(next_span, cur) ==
    LET vertical_gap == next_span.y0 - cur.y1
    IN  0 < vertical_gap /\ 2 * vertical_gap < 3 * line_height(cur)

is_horizontal_alignment(next_span, m) ==
    \/ Abs(next_span.x0 - m.initial_x0) < 15
    \/ /\ next_span.x0 > m.initial_x0
       /\ next_span.x0 - m.initial_x0 < 50
       /\ m.is_bold

is_bold_consistent(next_span, m) ==
    \/ m.is_bold /\ next_span.is_bold
    \/ m.is_bold /\ is_font_size_match(next_span, m) /\ Len(next_span.text) < 25

is_new_paragraph_start(next_span, m) ==
    next_span.x0 - m.initial_x0 > 30 /\ Len(next_span.text) < 4

Mergeable(next_span, cur, m) ==
    /\ is_vertical_proximity(next_span, cur)
    /\ is_font_size_match(next_span, m)
    /\ is_horizontal_alignment(next_span, m)
    /\ is_bold_consistent(next_span, m)
    /\ ~is_new_paragraph_start(next_span, m)

\* merged_text, merged_bbox, merged_font_size, merged_is_bold, initial_x0
StartMerged(span) ==
    [text |-> span.text, x0 |-> span.x0, y0 |-> span.y0, x1 |-> span.x1, y1 |-> span.y1,
     font_size |-> span.font_size, is_bold |-> span.is_bold, initial_x0 |-> span.x0]

Extend(m, next_span) ==
    [m EXCEPT !.text = m.text \o next_span.text,
              !.x1 = Max(m.x1, next_span.x1),
              !.y1 = Max(m.y1, next_span.y1),
              !.is_bold = m.is_bold \/ next_span.is_bold]

MergedLine(m, cur) ==
    [text |-> m.text, font_size |-> m.font_size, is_bold |-> m.is_bold, page |-> cur.page,
     x0 |-> m.x0, y0 |-> m.y0, x1 |-> m.x1, y1 |-> m.y1]

SkipsASpan(after) == after + 1

\* i = j: the next line starts at the first span that was not consumed
NextLineStart(after) == after

InitMerge ==
    /\ pc = "scan"
    /\ \E n \in 0..MaxSpans :
          \E kinds \in [1..n -> SpanKinds], gaps \in [1..n -> Gaps] :
              /\ n > 0 => gaps[1] = 0
              /\ page_data = LayOut(kinds, gaps)
    /\ merged_texts = <<>>
    /\ i = 1
    /\ j = 1
    /\ current = NoSpan
    /\ merged = NoSpan
    /\ consumed = <<>>
    /\ run = 1
    /\ first_output = <<>>
    /\ OutlineIdle
    /\ ThresholdsIdle
    /\ SectionsIdle
    /\ HeadingIdle
    /\ RankIdle
    /\ BatchIdle

StartLine ==
    /\ pc = "scan"
    /\ i <= Len(page_data)
    /\ current' = page_data[i]
    /\ merged' = StartMerged(page_data[i])
    /\ consumed' = Append(consumed, <<i>>)
    /\ j' = i + 1
    /\ pc' = "extend"
    /\ UNCHANGED <<page_data, merged_texts, i, run, first_output, outlineVars, thresholdVars,
                   sectionVars, headingVars, mainVars>>

ConsumeSpan ==
    /\ pc = "extend"
    /\ j <= Len(page_data)
    /\ ~EndsSentence(merged.text)
    /\ Mergeable(page_data[j], current, merged)
    /\ merged' = Extend(merged, page_data[j])
    /\ current' = page_data[j]
    /\ consumed' = [consumed EXCEPT ![Len(consumed)] = Append(@, j)]
    /\ j' = j + 1
    /\ UNCHANGED <<pc, page_data, merged_texts, i, run, first_output, outlineVars,
                   thresholdVars, sectionVars, headingVars, mainVars>>

EmitLine ==
    /\ pc = "extend"
    /\ IF j > Len(page_data) \/ EndsSentence(merged.text)
       THEN TRUE
       ELSE ~Mergeable(page_data[j], current, merged)
    /\ merged_texts' = Append(merged_texts, MergedLine(merged, current))
    /\ i' = NextLineStart(j)
    /\ pc' = "scan"
    /\ UNCHANGED <<page_data, j, current, merged, consumed, run, first_output, outlineVars,
                   thresholdVars, sectionVars, headingVars, mainVars>>

ReturnMerged ==
    /\ pc = "scan"
    /\ i > Len(page_data)
    /\ pc' = IF run = 1 THEN "merged" ELSE "remerged"
    /\ UNCHANGED <<mergeVars, outlineVars, thresholdVars, sectionVars, headingVars, mainVars>>

\* a merged line read as a span: its line height is that of its box (line 46)
AsSpan(line) ==
    [text |-> line.text, font_size |-> line.font_size, is_bold |-> line.is_bold,
     page |-> line.page, x0 |-> line.x0, y0 |-> line.y0, x1 |-> line.x1, y1 |-> line.y1]

MergeOwnOutput ==
    /\ pc = "merged"
    /\ first_output' = merged_texts
    /\ page_data' = [k \in 1..Len(merged_texts) |-> AsSpan(merged_texts[k])]
    /\ merged_texts' = <<>>
    /\ consumed' = <<>>
    /\ i' = 1
    /\ run' = 2
    /\ pc' = "scan"
    /\ UNCHANGED <<j, current, merged, outlineVars, thresholdVars, sectionVars, headingVars, mainVars>>

NextMerge ==
    \/ StartLine
    \/ ConsumeSpan
    \/ EmitLine
    \/ ReturnMerged
    \/ MergeOwnOutput

SpecMerge == InitMerge /\ [][NextMerge]_vars

\* one call of merge_heading_spans
NextScan ==
    \/ StartLine
    \/ ConsumeSpan
    \/ EmitLine
    \/ ReturnMerged

SpecScan == InitMerge /\ [][NextScan]_vars

\* C8: merging the merged lines of a page once more returns them unchanged.
C8_MergeIdempotent ==
    pc = "remerged" => merged_texts = first_output

\* C9: the box of every merged line bounds the boxes of the spans consumed
\* into it.
C9_BoxBoundsSpans ==
    pc \in {"merged", "remerged"} =>
        \A k \in 1..Len(merged_texts) :
            \A n \in Range(consumed[k]) :
                /\ merged_texts[k].x0 <= page_data[n].x0
                /\ merged_texts[k].y0 <= page_data[n].y0
                /\ merged_texts[k].x1 >= page_data[n].x1
                /\ merged_texts[k].y1 >= page_data[n].y1

RECURSIVE Concat(_)
Concat(seqs) ==
    IF seqs = <<>> THEN <<>>
    ELSE seqs[1] \o Concat(Tail(seqs))

\* the texts of the spans of a run, joined with single spaces
JoinedText(spans) == Concat([k \in 1..Len(spans) |-> page_data[spans[k]].text])

\* the merged lines are the spans of the page cut into consecutive non-empty
\* runs, in order, each line with the joined text of its run
IsPartition ==
    /\ Len(consumed) = Len(merged_texts)
    /\ Len(merged_texts) <= Len(page_data)
    /\ Concat(consumed) = [n \in 1..Len(page_data) |-> n]
    /\ \A k \in 1..Len(merged_texts) :
          /\ consumed[k] # <<>>
          /\ merged_texts[k].text = JoinedText(consumed[k])

\* C19: merge_heading_spans terminates (every step of the scan moves an
\* index forward, no index passes the end of the page by more than one, and
\* the scan is never stuck before it returns), and the merged lines it
\* returns partition the spans of the page into consecutive non-empty runs,
\* in order, at most as many as the spans, each with its spans' texts joined
\* with single spaces.
C19_MergePartition ==
    /\ [](pc = "merged" => IsPartition)
    /\ [](/\ i <= Len(page_data) + 1
          /\ j <= Len(page_data) + 1
          /\ pc \in {"scan", "extend"} => ENABLED NextScan)
    /\ [][pc' \in {"scan", "extend"} => i' + j' > i + j]_vars

\* a page of three spans merged into a line of two spans and a line of one
C19_Witness ==
    /\ pc = "merged"
    /\ Len(page_data) = 3
    /\ consumed = << <<1, 2>>, <<3>> >>
    /\ merged_texts[1].text = page_data[1].text \o page_data[2].text

----------------------------------------------------------------------------
(* The section materializer (extract_structured_sections)                   *)
(* Font sizes are in 1/100 pt, coordinates in pt; pages count from 0 and    *)
(* pages_data[n + 1] holds the spans of page n.                             *)

MaxDocSpans == 4
MaxOutline == 2

SpanStep == 100
PageBottom == 792
Infinity == 1000000

TitleText == <<"Complete", "Guide", "to", "the", "Grand", "Region">>

BodyText == [k \in 1..10 |-> "road"]

\* the shapes a span of the document has
DocKinds ==
    { [text |-> TitleText, font_size |-> 2400, is_bold |-> TRUE],
      [text |-> <<"Overview">>, font_size |-> 1400, is_bold |-> TRUE],
      [text |-> <<"Overview">>, font_size |-> 1100, is_bold |-> FALSE],
      [text |-> <<"1.1", "Scope">>, font_size |-> 1100, is_bold |-> FALSE],
      [text |-> BodyText, font_size |-> 1100, is_bold |-> FALSE],
      [text |-> <<"Page", "3", "of", "12">>, font_size |-> 1100, is_bold |-> FALSE],
      [text |-> <<"Day">>, font_size |-> 1100, is_bold |-> FALSE] }

\* len(word)
WordChars(w) ==
    CASE w \in {"3", "a", "4"} -> 1
      [] w \in {"to", "of", "12", "10"} -> 2
      [] w \in {"the", "Day", "1.1", "for"} -> 3
      [] w \in {"Trip", "trip", "Plan", "plan", "road", "Page", "days"} -> 4
      [] w \in {"Guide", "Grand", "Scope", "group", "trips"} -> 5
      [] w \in {"Region", "Travel", "travel"} -> 6
      [] w \in {"Planner", "planner", "college", "friends"} -> 7
      [] OTHER -> 8

\* len(text) of a stripped text
RECURSIVE CharLen(_)
CharLen(text) ==
    IF text = <<>> THEN 0
    ELSE IF Len(text) = 1 THEN WordChars(text[1])
    ELSE CharLen(SubSeq(text, 1, Len(text) - 1)) + 1 + WordChars(Last(text))

IsNumber(w) == w \in {"3", "12"}

IsLetters(w) == w \in {"Complete", "Guide", "to", "the", "Grand", "Region", "Overview",
                       "Scope", "road", "Page", "of", "Day"}

\* the four page-number, footer and running-header patterns
IsFooterHeader(text) ==
    \/ Len(text) = 4 /\ text[1] \in {"Page", "page", "PAGE"} /\ IsNumber(text[2])
                     /\ text[3] \in {"of", "OF", "Of"} /\ IsNumber(text[4])
    \/ Len(text) = 1 /\ IsNumber(text[1])
    \/ \E k \in 2..(Len(text) - 1) :
          /\ text[k] = "|"
          /\ \A n \in (1..Len(text)) \ {k} : IsLetters(text[n])
    \/ Len(text) = 3 /\ text[1] = "-" /\ IsNumber(text[2]) /\ text[3] = "-"

IsFragment(text) == ~(Len(text) > 1 \/ CharLen(text) > 5)

DocSpan(kind, page, n) ==
    [text |-> kind.text, font_size |-> kind.font_size, is_bold |-> kind.is_bold,
     page |-> page, y0 |-> n * SpanStep]

\* the document of two pages with spans of the given kinds, the first cut of
\* them on page 0
Document(kinds, cut) ==
    << [n \in 1..cut |-> DocSpan(kinds[n], 0, n)],
       [n \in 1..(Len(kinds) - cut) |-> DocSpan(kinds[cut + n], 1, n)] >>

RECURSIVE Flatten(_)
Flatten(pages) ==
    IF pages = <<>> THEN <<>>
    ELSE pages[1] \o Flatten(SubSeq(pages, 2, Len(pages)))

\* the titles identify_headings can return for a document
TitlesOf(doc) ==
    {<<>>} \cup IF \E sp \in Range(doc[1]) : sp.text = TitleText
                THEN {TitleText, SubSeq(TitleText, 1, 5)}
                ELSE {}

\* a line identify_headings can classify: bold, or numbered
IsHeadingSpan(sp) == sp.text # TitleText /\ (sp.is_bold \/ sp.text[1] = "1.1")

\* the outlines identify_headings can return for a document: headings in
\* document order, the first one H1
OutlinesOf(doc) ==
    LET flat  == Flatten(doc)
        heads == {n \in 1..Len(flat) : IsHeadingSpan(flat[n])}
        picks == {S \in SUBSET heads : Cardinality(S) <= MaxOutline}
        Nth(S, k) == CHOOSE n \in S : Cardinality({x \in S : x < n}) = k - 1
        Made(S) == [k \in 1..Cardinality(S) |->
                       [level |-> IF k = 1 THEN "H1" ELSE "H2",
                        text |-> flat[Nth(S, k)].text, page |-> flat[Nth(S, k)].page]]
    IN  {o \in {Made(S) : S \in picks} : DistinctTriples(o)}

IsInfix(part, text) ==
    \E k \in 0..(Len(text) - Len(part)) : SubSeq(text, k + 1, k + Len(part)) = part

MatchesTitle(sp, ttl) ==
    \/ sp.text = ttl
    \/ /\ CharLen(ttl) > 20
       /\ IsInfix(ttl, sp.text)
       /\ sp.is_bold
       /\ sp.font_size >= 1800

MatchesHeading(sp, item) ==
    /\ sp.page = item.page
    /\ sp.text = item.text
    /\ (sp.is_bold \/ sp.font_size >= 1200)

\* the first span of the document that matches the title, 0 if none does
FirstTitleIndex(flat, ttl) ==
    IF \E n \in 1..Len(flat) : MatchesTitle(flat[n], ttl)
    THEN CHOOSE n \in 1..Len(flat) :
             MatchesTitle(flat[n], ttl) /\ \A k \in 1..(n - 1) : ~MatchesTitle(flat[k], ttl)
    ELSE 0

\* the first span of the document that matches the outline entry, 0 if none does
FirstHeadingIndex(flat, item) ==
    IF \E n \in 1..Len(flat) : MatchesHeading(flat[n], item)
    THEN CHOOSE n \in 1..Len(flat) :
             MatchesHeading(flat[n], item) /\ \A k \in 1..(n - 1) : ~MatchesHeading(flat[k], item)
    ELSE 0

TitleMarker(doc, ttl) ==
    LET flat == Flatten(doc)
        n == FirstTitleIndex(flat, ttl)
    IN  IF n > 0
        THEN [text |-> ttl, page |-> flat[n].page, y0 |-> flat[n].y0, level |-> "H0"]
        ELSE [text |-> ttl, page |-> 0, y0 |-> 0, level |-> "H0"]

OutlineMarker(doc, item) ==
    LET flat == Flatten(doc)
        n == FirstHeadingIndex(flat, item)
    IN  [text |-> item.text, page |-> item.page,
         y0 |-> IF n > 0 THEN flat[n].y0 ELSE 0, level |-> item.level]

CollectMarkers(doc, ttl, outl) ==
    (IF ttl # <<>> THEN <<TitleMarker(doc, ttl)>> ELSE <<>>)
        \o [k \in 1..Len(outl) |-> OutlineMarker(doc, outl[k])]

MarkerLE(a, b) == a.page < b.page \/ (a.page = b.page /\ a.y0 <= b.y0)

RECURSIVE InsertMarker(_, _)
InsertMarker(s, mk) ==
    IF s = <<>> THEN <<mk>>
    ELSE IF MarkerLE(Last(s), mk) THEN Append(s, mk)
    ELSE Append(InsertMarker(SubSeq(s, 1, Len(s) - 1), mk), Last(s))

RECURSIVE SortMarkers(_)
SortMarkers(s) ==
    IF s = <<>> THEN <<>>
    ELSE InsertMarker(SortMarkers(SubSeq(s, 1, Len(s) - 1)), Last(s))

RECURSIVE DedupTextsFrom(_, _, _)
DedupTextsFrom(s, n, seen_texts) ==
    IF n > Len(s) THEN <<>>
    ELSE IF s[n].text \in seen_texts THEN DedupTextsFrom(s, n + 1, seen_texts)
    ELSE <<s[n]>> \o DedupTextsFrom(s, n + 1, seen_texts \cup {s[n].text})

DedupMarkers(s) == DedupTextsFrom(s, 1, {})

ToEndOfDocument(doc, markers, k) == [end_page |-> Len(doc) - 1, end_y |-> Infinity]

\* end_page_for_content and end_y_for_content of marker k
Window(doc, markers, k) ==
    IF k + 1 <= Len(markers)
    THEN [end_page |-> markers[k].page,
          end_y |-> IF markers[k + 1].page = markers[k].page
                    THEN markers[k + 1].y0 ELSE PageBottom]
    ELSE [end_page |-> Len(doc) - 1, end_y |-> Infinity]

InWindow(sp, page, marker, win) ==
    /\ sp.y0 >= marker.y0
    /\ \/ page < win.end_page
       \/ page = win.end_page /\ sp.y0 < win.end_y

OnlyNotOwnHeading(sp, marker, outl) == sp.text # marker.text

IsNotHeadingText(sp, marker, outl) ==
    /\ sp.text # marker.text
    /\ \A k \in 1..Len(outl) : sp.text # outl[k].text

RECURSIVE GatherFrom(_, _, _, _, _)
GatherFrom(doc, page, marker, win, outl) ==
    IF page > win.end_page THEN <<>>
    ELSE LET Keep(sp) == /\ InWindow(sp, page, marker, win)
                         /\ IsNotHeadingText(sp, marker, outl)
                         /\ ~IsFooterHeader(sp.text)
                         /\ ~IsFragment(sp.text)
             here == IF page >= Len(doc) THEN <<>> ELSE SelectSeq(doc[page + 1], Keep)
         IN  [n \in 1..Len(here) |-> here[n].text]
                 \o GatherFrom(doc, page + 1, marker, win, outl)

\* section_text_content of marker k: the texts of the spans it gathers
SectionLines(doc, markers, k, outl) ==
    GatherFrom(doc, markers[k].page, markers[k], Window(doc, markers, k), outl)

\* the span instances (page, place on the page) whose texts the content loop
\* appends for marker k
GatheredSpans(doc, markers, k, outl) ==
    LET marker == markers[k]
        win == Window(doc, markers, k)
    IN  {pn \in UNION {{<<page, n>> : n \in 1..Len(doc[page + 1])} :
                          page \in {q \in marker.page..win.end_page : q < Len(doc)}} :
            LET sp == doc[pn[1] + 1][pn[2]]
            IN  /\ InWindow(sp, pn[1], marker, win)
                /\ IsNotHeadingText(sp, marker, outl)
                /\ ~IsFooterHeader(sp.text)
                /\ ~IsFragment(sp.text)}

RECURSIVE WordCount(_)
WordCount(lines) ==
    IF lines = <<>> THEN 0
    ELSE Len(lines[1]) + WordCount(SubSeq(lines, 2, Len(lines)))

MinWords == 10

KeptOnContentOnly(marker, lines) == WordCount(lines) >= MinWords

IsKept(marker, lines) == marker.level = "H0" \/ WordCount(lines) >= MinWords

Section(marker, lines) ==
    [section_title |-> marker.text, page_number |-> marker.page + 1,
     text_content |-> lines, level |-> marker.level]

InitSections ==
    /\ pc = "markers"
    /\ \E n \in 0..MaxDocSpans :
          \E kinds \in [1..n -> DocKinds], cut \in 0..n :
              pages_data = Document(kinds, cut)
    /\ title \in TitlesOf(pages_data)
    /\ outline \in OutlinesOf(pages_data)
    /\ section_markers = <<>>
    /\ marker_i = 1
    /\ structured_sections = <<>>
    /\ gathered = <<>>
    /\ OutlineIdle
    /\ ThresholdsIdle
    /\ MergeIdle
    /\ HeadingIdle
    /\ RankIdle
    /\ BatchIdle

BuildMarkers ==
    /\ pc = "markers"
    /\ section_markers' = DedupMarkers(SortMarkers(CollectMarkers(pages_data, title, outline)))
    /\ pc' = "content"
    /\ UNCHANGED <<pages_data, title, outline, marker_i, structured_sections, gathered,
                   outlineVars, thresholdVars, mergeVars, headingVars, mainVars>>

KeepSection ==
    /\ pc = "content"
    /\ marker_i <= Len(section_markers)
    /\ LET lines == SectionLines(pages_data, section_markers, marker_i, outline)
       IN  /\ IsKept(section_markers[marker_i], lines)
           /\ structured_sections' =
                  Append(structured_sections, Section(section_markers[marker_i], lines))
    /\ gathered' = Append(gathered,
                          GatheredSpans(pages_data, section_markers, marker_i, outline))
    /\ marker_i' = marker_i + 1
    /\ UNCHANGED <<pc, pages_data, title, outline, section_markers,
                   outlineVars, thresholdVars, mergeVars, headingVars, mainVars>>

DiscardSection ==
    /\ pc = "content"
    /\ marker_i <= Len(section_markers)
    /\ ~IsKept(section_markers[marker_i],
               SectionLines(pages_data, section_markers, marker_i, outline))
    /\ gathered' = Append(gathered,
                          GatheredSpans(pages_data, section_markers, marker_i, outline))
    /\ marker_i' = marker_i + 1
    /\ UNCHANGED <<pc, pages_data, title, outline, section_markers, structured_sections,
                   outlineVars, thresholdVars, mergeVars, headingVars, mainVars>>

ReturnSections ==
    /\ pc = "content"
    /\ marker_i > Len(section_markers)
    /\ pc' = "sections"
    /\ UNCHANGED <<sectionVars, outlineVars, thresholdVars, mergeVars, headingVars, mainVars>>

NextSections ==
    \/ BuildMarkers
    \/ KeepSection
    \/ DiscardSection
    \/ ReturnSections

SpecSections == InitSections /\ [][NextSections]_vars

\* C10: no line of the text_content of a returned section is the text of an
\* entry of the document's outline.
C10_SectionCoverage ==
    \A n \in 1..Len(structured_sections) :
        \A line \in Range(structured_sections[n].text_content) :
            \A e \in Range(outline) : line # e.text

\* a kept section with content whose window holds the text of another heading
C10_Witness ==
    /\ pc = "sections"
    /\ \E k \in 1..Len(section_markers) :
          /\ \E n \in 1..Len(structured_sections) :
                /\ structured_sections[n].section_title = section_markers[k].text
                /\ structured_sections[n].text_content # <<>>
          /\ \E page \in 0..(Len(pages_data) - 1) :
                \E sp \in Range(pages_data[page + 1]) :
                    /\ InWindow(sp, page, section_markers[k],
                                Window(pages_data, section_markers, k))
                    /\ sp.text # section_markers[k].text
                    /\ \E e \in Range(outline) : sp.text = e.text

\* the sections returned for marker k: those that carry its text (the markers
\* have pairwise different texts after the de-duplication)
SectionsOf(k) ==
    {n \in 1..Len(structured_sections) :
        structured_sections[n].section_title = section_markers[k].text}

\* C11: when extract_structured_sections returns, a de-duplicated marker has a
\* section in the result if and only if its level is H0 or the content gathered
\* for it has at least 10 words; it has at most one; the section carries the
\* gathered content, the marker's level and the marker's page plus 1; and
\* every returned section belongs to a marker.
C11_SectionRetention ==
    pc = "sections" =>
        /\ \A k \in 1..Len(section_markers) :
              LET mk == section_markers[k]
                  lines == SectionLines(pages_data, section_markers, k, outline)
              IN  /\ (SectionsOf(k) # {}) <=> (mk.level = "H0" \/ WordCount(lines) >= 10)
                  /\ Cardinality(SectionsOf(k)) <= 1
                  /\ \A n \in SectionsOf(k) :
                        /\ structured_sections[n].page_number = mk.page + 1
                        /\ structured_sections[n].text_content = lines
                        /\ structured_sections[n].level = mk.level
        /\ \A n \in 1..Len(structured_sections) :
              \E k \in 1..Len(section_markers) : n \in SectionsOf(k)

\* a returned title section with empty content, next to a heading marker that
\* was discarded for having fewer than 10 words
C11_Witness ==
    /\ pc = "sections"
    /\ \E k \in 1..Len(section_markers) :
          /\ section_markers[k].level = "H0"
          /\ \E n \in SectionsOf(k) : structured_sections[n].text_content = <<>>
    /\ \E k \in 1..Len(section_markers) :
          /\ section_markers[k].level # "H0"
          /\ SectionsOf(k) = {}

SpanAt(pn) == pages_data[pn[1] + 1][pn[2]]

\* C21: the content windows of the de-duplicated, sorted markers of a document
\* are pairwise disjoint: no span instance is in the content of two markers; a
\* marker that is not the last one gathers spans of its own page only, from
\* its y0 up to but not including the y0 of the next marker if that is on the
\* same page; only the last marker gathers spans of later pages. The content
\* holds one line per gathered span.
C21_DisjointSectionBodies ==
    /\ \A u, v \in 1..Len(gathered) : u # v => gathered[u] \cap gathered[v] = {}
    /\ \A k \in 1..Len(gathered) :
          LET mk == section_markers[k]
          IN  /\ Cardinality(gathered[k])
                    = Len(SectionLines(pages_data, section_markers, k, outline))
              /\ \A pn \in gathered[k] :
                    /\ pn[1] >= mk.page
                    /\ SpanAt(pn).y0 >= mk.y0
                    /\ pn[1] > mk.page => k = Len(section_markers)
                    /\ k < Len(section_markers) =>
                          /\ pn[1] = mk.page
                          /\ section_markers[k + 1].page = mk.page
                                => SpanAt(pn).y0 < section_markers[k + 1].y0

\* C21: the first two markers are on the same page and each has a span in its
\* content
C21_Witness ==
    /\ pc = "sections"
    /\ Len(section_markers) >= 2
    /\ section_markers[1].page = section_markers[2].page
    /\ gathered[1] # {}
    /\ gathered[2] # {}

----------------------------------------------------------------------------
(* PersonaAnalyzer and RelevanceScorer (main.py)                            *)
(* A query text is the sequence of its whitespace-separated words, and so   *)
(* is the text_content of a section to rank.                                *)

MaxSections == 3
MaxJobWords == 3

\* str.lower() of a word
Lower(w) ==
    CASE w = "Plan" -> "plan"
      [] w = "Trip" -> "trip"
      [] w = "Travel" -> "travel"
      [] w = "Planner" -> "planner"
      [] OTHER -> w

\* re.findall(r'\b\w+\b', w) of a lowercase word: its runs of word characters
WordTokens(w) ==
    CASE w = "friends." -> <<"friends">>
      [] OTHER -> <<w>>

RECURSIVE Tokenize(_)
Tokenize(text) ==
    IF text = <<>> THEN <<>>
    ELSE WordTokens(Lower(text[1])) \o Tokenize(Tail(text))

stopwords == {"a", "an", "the", "and", "or", "is", "in", "of", "to", "for", "with",
              "on", "from", "as", "by", "that", "this", "what", "how"}

MinKeywordLen == 2

extract_keywords(text) ==
    LET Keep(word) == word \notin stopwords /\ WordChars(word) > MinKeywordLen
    IN  SelectSeq(Tokenize(text), Keep)

\* the query text of PersonaAnalyzer.__init__
QueryText(role, description, job_to_be_done) == role \o description \o job_to_be_done

\* the persona and the job that run_solution sets
RunRole == <<"Travel", "Planner">>
RunDescription == <<>>
RunJob == <<"Plan", "a", "trip", "of", "4", "days", "for", "a", "group", "of", "10",
            "college", "friends.">>

\* word.count(keyword) of a lowercase word
SubstrCount(keyword, w) ==
    IF keyword = w \/ <<keyword, w>> \in {<<"plan", "planner">>, <<"trip", "trips">>}
    THEN 1 ELSE 0

\* section_lower.count(keyword)
RECURSIVE CountIn(_, _)
CountIn(section_text, keyword) ==
    IF section_text = <<>> THEN 0
    ELSE SubstrCount(keyword, Lower(section_text[1])) + CountIn(Tail(section_text), keyword)

RECURSIVE calculate_relevance(_, _)
calculate_relevance(section_text, keywords) ==
    IF keywords = <<>> THEN 0
    ELSE CountIn(section_text, keywords[1])
             + calculate_relevance(section_text, Tail(keywords))

SectionTitles == {"A", "B"}

SectionTexts == { <<>>, <<"Plan", "trip">>, <<"planner">>,
                  <<"trip", "plan", "trips", "days", "group">> }

\* the list of the sections with the given titles and texts; src is the
\* place of a section in the list
SectionList(ts) ==
    [k \in DOMAIN ts |-> [section_title |-> ts[k][1], text_content |-> ts[k][2], src |-> k]]

\* {**section, "score": score}
WithScore(section, keywords) ==
    [f \in DOMAIN section \cup {"score"} |->
        IF f = "score" THEN calculate_relevance(section.text_content, keywords)
        ELSE section[f]]

TiesSwapped(before, section) == before.score > section.score

\* in the descending stable sort, a section stays behind the ones before it
\* in the list that score at least as much
StaysBehind(before, section) == before.score >= section.score

RECURSIVE InsertByScore(_, _)
InsertByScore(s, section) ==
    IF s = <<>> THEN <<section>>
    ELSE IF StaysBehind(Last(s), section) THEN Append(s, section)
    ELSE Append(InsertByScore(SubSeq(s, 1, Len(s) - 1), section), Last(s))

\* sorted(sections_with_scores, key=score, reverse=True)
RECURSIVE SortedByScore(_)
SortedByScore(s) ==
    IF s = <<>> THEN <<>>
    ELSE InsertByScore(SortedByScore(SubSeq(s, 1, Len(s) - 1)), Last(s))

\* the rank is set and the score deleted
Ranked(section, rank) ==
    [f \in (DOMAIN section \ {"score"}) \cup {"importance_rank"} |->
        IF f = "importance_rank" THEN rank ELSE section[f]]

rank_sections(to_rank, keywords) ==
    LET scored == [k \in 1..Len(to_rank) |-> WithScore(to_rank[k], keywords)]
        sorted == SortedByScore(scored)
    IN  [k \in 1..Len(sorted) |-> Ranked(sorted[k], k)]

JobWords == {"Plan", "plan", "a", "trip", "4", "friends."}

InitRank ==
    /\ pc = "persona"
    /\ query_text = QueryText(RunRole, RunDescription, RunJob)
    /\ query_keywords = <<>>
    /\ \E n \in 0..MaxSections :
          \E ts \in [1..n -> SectionTitles \X SectionTexts] : sections = SectionList(ts)
    /\ sections_with_scores = <<>>
    /\ ranked_sections = <<>>
    /\ BatchIdle
    /\ OutlineIdle
    /\ ThresholdsIdle
    /\ MergeIdle
    /\ SectionsIdle
    /\ HeadingIdle

InitKeywords ==
    /\ pc = "persona"
    /\ \E role \in {RunRole, <<"Plan">>}, description \in {<<>>, <<"the", "trip", "plan">>} :
          \E n \in 0..MaxJobWords :
              \E job \in [1..n -> JobWords] : query_text = QueryText(role, description, job)
    /\ query_keywords = <<>>
    /\ \E ts \in [1..1 -> SectionTitles \X SectionTexts] : sections = SectionList(ts)
    /\ sections_with_scores = <<>>
    /\ ranked_sections = <<>>
    /\ BatchIdle
    /\ OutlineIdle
    /\ ThresholdsIdle
    /\ MergeIdle
    /\ SectionsIdle
    /\ HeadingIdle

ExtractKeywords ==
    /\ pc = "persona"
    /\ query_keywords' = extract_keywords(query_text)
    /\ pc' = "scoring"
    /\ UNCHANGED <<query_text, sections, sections_with_scores, ranked_sections,
                   batchVars, parserVars>>

ScoreSections ==
    /\ pc = "scoring"
    /\ sections_with_scores' =
           [k \in 1..Len(sections) |-> WithScore(sections[k], query_keywords)]
    /\ pc' = "sorting"
    /\ UNCHANGED <<query_text, query_keywords, sections, ranked_sections,
                   batchVars, parserVars>>

SortSections ==
    /\ pc = "sorting"
    /\ ranked_sections' = SortedByScore(sections_with_scores)
    /\ pc' = "ranking"
    /\ UNCHANGED <<query_text, query_keywords, sections, sections_with_scores,
                   batchVars, parserVars>>

AssignRanks ==
    /\ pc = "ranking"
    /\ ranked_sections' = [k \in 1..Len(ranked_sections) |-> Ranked(ranked_sections[k], k)]
    /\ pc' = "ranked"
    /\ UNCHANGED <<query_text, query_keywords, sections, sections_with_scores,
                   batchVars, parserVars>>

NextRank ==
    \/ ExtractKeywords
    \/ ScoreSections
    \/ SortSections
    \/ AssignRanks

SpecRank == InitRank /\ [][NextRank]_vars

SpecKeywords == InitKeywords /\ [][NextRank]_vars

ScoreOf(section) == calculate_relevance(section.text_content, query_keywords)

\* C12: rank_sections returns a permutation of its input, ranked 1, 2, ..., N
\* in list order, with scores that never increase along the list, and sections
\* of equal score in the order they had in the input.
C12_ScoreRankCorrespondence ==
    pc = "ranked" =>
        /\ Len(ranked_sections) = Len(sections)
        /\ {ranked_sections[k].src : k \in 1..Len(ranked_sections)} = 1..Len(sections)
        /\ \A k \in 1..Len(ranked_sections) :
              /\ ranked_sections[k].importance_rank = k
              /\ ranked_sections[k].section_title =
                     sections[ranked_sections[k].src].section_title
              /\ ranked_sections[k].text_content =
                     sections[ranked_sections[k].src].text_content
        /\ \A u, v \in 1..Len(ranked_sections) :
              u < v =>
                  /\ ScoreOf(ranked_sections[u]) >= ScoreOf(ranked_sections[v])
                  /\ ScoreOf(ranked_sections[u]) = ScoreOf(ranked_sections[v])
                         => ranked_sections[u].src < ranked_sections[v].src

\* sections A, B, C scoring 5, 5, 2 in input order come out ranked 1, 2, 3
C12_Witness ==
    /\ pc = "ranked"
    /\ Len(sections) = 3
    /\ [k \in 1..3 |-> ScoreOf(sections[k])] = <<5, 5, 2>>
    /\ [k \in 1..3 |-> ranked_sections[k].src] = <<1, 2, 3>>
    /\ sections[1].section_title = "A"
    /\ sections[2].section_title = "B"

\* the sum, over the keywords of the set K, of their occurrences in the text
RECURSIVE OccurrencesOfEach(_, _)
OccurrencesOfEach(section_text, K) ==
    IF K = {} THEN 0
    ELSE LET keyword == CHOOSE w \in K : TRUE
         IN  CountIn(section_text, keyword) + OccurrencesOfEach(section_text, K \ {keyword})

\* C15: the keywords of a query are lowercase, longer than 2 characters, no
\* stopwords, and pairwise different, and the score of a section is the number
\* of occurrences of each distinct keyword, counted once.
C15_KeywordSet ==
    pc # "persona" =>
        /\ \A k \in 1..Len(query_keywords) :
              /\ Lower(query_keywords[k]) = query_keywords[k]
              /\ WordChars(query_keywords[k]) > 2
              /\ query_keywords[k] \notin stopwords
        /\ \A u, v \in 1..Len(query_keywords) :
              u # v => query_keywords[u] # query_keywords[v]
        /\ \A k \in 1..Len(sections_with_scores) :
              sections_with_scores[k].score =
                  OccurrencesOfEach(sections_with_scores[k].text_content,
                                    Range(query_keywords))

----------------------------------------------------------------------------
(* The batch run (run_solution of main.py)                                  *)

MaxDocs == 3

MAX_EXTRACTED_SECTIONS_TO_KEEP == 10
MAX_SUB_SECTION_ANALYSIS_TO_KEEP == 5

\* what extract_structured_sections does with a file of the input directory:
\* it returns the sections of the file (none for a file without structure),
\* it catches fitz.FileNotFoundError and returns no section, or it raises
\* again any other exception (a file fitz cannot read, a fault while parsing)
FileKinds ==
    { [outcome |-> "sections", texts |-> <<>>],
      [outcome |-> "sections", texts |-> << <<"Plan", "trip">> >>],
      [outcome |-> "sections",
       texts |-> << <<"planner">>, <<"trip", "plan", "trips", "days", "group">> >>],
      [outcome |-> "not_found", texts |-> <<>>],
      [outcome |-> "unreadable", texts |-> <<>>],
      [outcome |-> "fault", texts |-> <<>>] }

\* the sections extract_structured_sections returns for file k
SectionsOfFile(files, k) ==
    [n \in 1..Len(files[k].texts) |->
        [document_filename |-> k, section_title |-> <<k, n>>,
         text_content |-> files[k].texts[n]]]

Raises(file) == file.outcome \in {"unreadable", "fault"}

\* the output data of run_solution for the ranked sections
Report(files, ranked) ==
    [input_documents |-> [k \in 1..Len(files) |-> k],
     extracted_sections |->
        [k \in 1..Min(MAX_EXTRACTED_SECTIONS_TO_KEEP, Len(ranked)) |->
            [document |-> ranked[k].document_filename,
             section_title |-> ranked[k].section_title,
             importance_rank |-> ranked[k].importance_rank]],
     sub_section_analysis |->
        [k \in 1..Min(MAX_SUB_SECTION_ANALYSIS_TO_KEEP, Len(ranked)) |->
            [document |-> ranked[k].document_filename,
             section_title |-> ranked[k].section_title]]]

InitBatch ==
    /\ pc = "list"
    /\ \E n \in 0..MaxDocs : input_pdf_files \in [1..n -> FileKinds]
    /\ doc_i = 1
    /\ all_raw_extracted_sections = <<>>
    /\ reports = <<>>
    /\ query_text = QueryText(RunRole, RunDescription, RunJob)
    /\ query_keywords = extract_keywords(QueryText(RunRole, RunDescription, RunJob))
    /\ sections = <<>>
    /\ sections_with_scores = <<>>
    /\ ranked_sections = <<>>
    /\ OutlineIdle
    /\ ThresholdsIdle
    /\ MergeIdle
    /\ SectionsIdle
    /\ HeadingIdle

\* no PDF in the input directory: return without a report
NoPdfFound ==
    /\ pc = "list"
    /\ input_pdf_files = <<>>
    /\ pc' = "returned"
    /\ UNCHANGED <<batchVars, rankVars, parserVars>>

StartProcessing ==
    /\ pc = "list"
    /\ input_pdf_files # <<>>
    /\ pc' = "parse"
    /\ UNCHANGED <<batchVars, rankVars, parserVars>>

InParseLoop == pc = "parse" /\ doc_i <= Len(input_pdf_files)

ParseDocument ==
    /\ InParseLoop
    /\ ~Raises(input_pdf_files[doc_i])
    /\ SectionsOfFile(input_pdf_files, doc_i) # <<>>
    /\ all_raw_extracted_sections' =
           all_raw_extracted_sections \o SectionsOfFile(input_pdf_files, doc_i)
    /\ doc_i' = doc_i + 1
    /\ UNCHANGED <<pc, input_pdf_files, reports, rankVars, parserVars>>

\* no section comes back (an empty structure, or the file was not found)
SkipDocument ==
    /\ InParseLoop
    /\ ~Raises(input_pdf_files[doc_i])
    /\ SectionsOfFile(input_pdf_files, doc_i) = <<>>
    /\ doc_i' = doc_i + 1
    /\ UNCHANGED <<pc, input_pdf_files, all_raw_extracted_sections, reports,
                   rankVars, parserVars>>

\* extract_structured_sections raises, and nothing in run_solution catches it
RaiseFromDocument ==
    /\ InParseLoop
    /\ Raises(input_pdf_files[doc_i])
    /\ pc' = "crashed"
    /\ UNCHANGED <<batchVars, rankVars, parserVars>>

NoSectionsExtracted ==
    /\ pc = "parse"
    /\ doc_i > Len(input_pdf_files)
    /\ all_raw_extracted_sections = <<>>
    /\ pc' = "returned"
    /\ UNCHANGED <<batchVars, rankVars, parserVars>>

RankAndWriteReport ==
    /\ pc = "parse"
    /\ doc_i > Len(input_pdf_files)
    /\ all_raw_extracted_sections # <<>>
    /\ reports' = Append(reports,
                         Report(input_pdf_files,
                                rank_sections(all_raw_extracted_sections, query_keywords)))
    /\ pc' = "returned"
    /\ UNCHANGED <<input_pdf_files, doc_i, all_raw_extracted_sections, rankVars, parserVars>>

NextBatch ==
    \/ NoPdfFound
    \/ StartProcessing
    \/ ParseDocument
    \/ SkipDocument
    \/ RaiseFromDocument
    \/ NoSectionsExtracted
    \/ RankAndWriteReport

SpecBatch == InitBatch /\ [][NextBatch]_vars

Ended == pc \in {"returned", "crashed"}

Failing(file) == file.outcome \in {"not_found", "unreadable", "fault"}

\* C13: when the run has ended, every file of the batch has been processed, no
\* section comes from a file that was unreadable or whose extraction failed,
\* and the report has been written if some file produced sections.
C13_PartialFailureIsolation ==
    Ended =>
        /\ doc_i > Len(input_pdf_files)
        /\ \A n \in 1..Len(all_raw_extracted_sections) :
              ~Failing(input_pdf_files[all_raw_extracted_sections[n].document_filename])
        /\ (\E k \in 1..Len(input_pdf_files) : input_pdf_files[k].texts # <<>>)
              => Len(reports) = 1

\* C14: the report is written at most once, only after every file has been
\* processed, and only if there is a file and the aggregate section list is
\* not empty; and a run that ends with no file found or no section extracted
\* ends normally, without a report.
C14_NoWriteTerminal ==
    /\ Len(reports) <= 1
    /\ Len(reports) = 1 =>
          /\ doc_i > Len(input_pdf_files)
          /\ input_pdf_files # <<>>
          /\ all_raw_extracted_sections # <<>>
    /\ (Ended /\ (input_pdf_files = <<>> \/ all_raw_extracted_sections = <<>>))
          => (pc = "returned" /\ reports = <<>>)

(***************************************************************************)
(* The heading classifier (identify_headings)                              *)

\* the thresholds identify_headings infers from the font sizes of the merged
\* lines: seeds, floors, then the three adjustments in order
InferredThresholds(counts) ==
    LET seeded == SeedThresholds(RelevantSizes(counts))
        floors == [title |-> ApplyFloor(seeded.title, TitleFloor),
                   h1    |-> ApplyFloor(seeded.h1, H1Floor),
                   h2    |-> ApplyFloor(seeded.h2, H2Floor),
                   h3    |-> ApplyFloor(seeded.h3, H3Floor)]
        t  == PushUp(floors.title, floors.h1, TitleTrigger, TitleGap)
        a  == PushUp(floors.h1, floors.h2, LevelTrigger, LevelGap)
        b  == PushUp(floors.h2, floors.h3, LevelTrigger, LevelGap)
    IN  [title |-> t, h1 |-> a, h2 |-> b, h3 |-> floors.h3]

\* number_prefix of the text of a line, "" when the text does not start with
\* a number
NumberPrefixes == {"", "1", "1.1", "1.1.1"}

dot_count(number_prefix) ==
    CASE number_prefix = "1" -> 0
      [] number_prefix = "1.1" -> 1
      [] number_prefix = "1.1.1" -> 2

\* font_size of a line in the unit of the thresholds
SizeOf(line) == line.font_size * (Unit \div 100)

ExactBand == 10000
WideBand == 15000
FallbackMargin == 5000
TinyBold == 20000
MaxDots == 2

\* is_likely_non_heading of a line alone on its page whose text is short and
\* has none of the shapes of rules 2 to 5: rule 6 is left
is_likely_non_heading(line, th) ==
    line.is_bold /\ SizeOf(line) < th.h3 - TinyBold

is_numbered_heading_prominent(line, th) ==
    \/ line.is_bold
    \/ SizeOf(line) >= th.h3 - ExactBand /\ dot_count(line.number_prefix) <= MaxDots

\* the level of the numbered branch, "None" if it assigns none
NumberedLevel(line, th) ==
    LET size == SizeOf(line)
        dots == dot_count(line.number_prefix)
    IN  IF line.number_prefix = "" THEN "None"
        ELSE IF ~is_numbered_heading_prominent(line, th) THEN "None"
        ELSE IF dots = 0
             THEN IF Abs(size - th.h1) < WideBand THEN "H1"
                  ELSE IF Abs(size - th.h2) < ExactBand /\ size > th.h3 THEN "H2"
                  ELSE "None"
        ELSE IF dots = 1
             THEN IF Abs(size - th.h2) < WideBand THEN "H2"
                  ELSE IF Abs(size - th.h3) < ExactBand THEN "H3"
                  ELSE "None"
        ELSE IF Abs(size - th.h3) < WideBand THEN "H3" ELSE "None"

\* the level of the first three branches of the unnumbered classification
ExactLevel(line, th) ==
    LET size == SizeOf(line)
    IN  IF line.is_bold /\ Abs(size - th.h1) < ExactBand THEN "H1"
        ELSE IF line.is_bold /\ Abs(size - th.h2) < ExactBand THEN "H2"
        ELSE IF line.is_bold /\ Abs(size - th.h3) < ExactBand THEN "H3"
        ELSE "None"

\* the level of its last three branches
FallbackLevel(line, th) ==
    LET size == SizeOf(line)
    IN  IF line.is_bold /\ size >= th.h1 - WideBand /\ size > th.h2 + FallbackMargin
        THEN "H1"
        ELSE IF line.is_bold /\ size >= th.h2 - WideBand /\ size > th.h3 + FallbackMargin
        THEN "H2"
        ELSE IF line.is_bold /\ size >= th.h3 - WideBand THEN "H3"
        ELSE "None"

\* a document whose merged lines have the font sizes counted in the histogram,
\* at one of its lines
InitClassify ==
    /\ pc = "line"
    /\ \E counts \in Histograms(MaxCount) :
          /\ thresholds = InferredThresholds(counts)
          /\ \E size \in {x \in FontSizes : counts[x] > 0}, bold \in BOOLEAN,
                prefix \in NumberPrefixes :
                text_info = [font_size |-> size, is_bold |-> bold,
                             number_prefix |-> prefix]
    /\ all_font_sizes = <<>> /\ relevant_sizes = <<>> /\ floored = NoThresholds
    /\ merged_lines = <<>> /\ line_i = 1 /\ title_text = <<>>
    /\ potential_level = "None"
    /\ assigned_by = "none"
    /\ OutlineIdle
    /\ MergeIdle
    /\ SectionsIdle
    /\ RankIdle
    /\ BatchIdle

Classified(level, branch) ==
    /\ potential_level' = level
    /\ assigned_by' = branch
    /\ pc' = "candidate"
    /\ UNCHANGED <<merged_lines, line_i, title_text, text_info, outlineVars, thresholdVars,
                   mergeVars, sectionVars, mainVars>>

SkipNonHeading ==
    /\ pc = "line"
    /\ is_likely_non_heading(text_info, thresholds)
    /\ assigned_by' = "filter"
    /\ pc' = "next_line"
    /\ UNCHANGED <<merged_lines, line_i, title_text, text_info, potential_level, outlineVars,
                   thresholdVars, mergeVars, sectionVars, mainVars>>

ClassifyNumbered ==
    /\ pc = "line"
    /\ ~is_likely_non_heading(text_info, thresholds)
    /\ NumberedLevel(text_info, thresholds) # "None"
    /\ Classified(NumberedLevel(text_info, thresholds), "numbered")

ClassifyExact ==
    /\ pc = "line"
    /\ ~is_likely_non_heading(text_info, thresholds)
    /\ NumberedLevel(text_info, thresholds) = "None"
    /\ ExactLevel(text_info, thresholds) # "None"
    /\ Classified(ExactLevel(text_info, thresholds), "exact")

ClassifyFallback ==
    /\ pc = "line"
    /\ ~is_likely_non_heading(text_info, thresholds)
    /\ NumberedLevel(text_info, thresholds) = "None"
    /\ ExactLevel(text_info, thresholds) = "None"
    /\ FallbackLevel(text_info, thresholds) # "None"
    /\ Classified(FallbackLevel(text_info, thresholds), "fallback")

LeaveUnclassified ==
    /\ pc = "line"
    /\ ~is_likely_non_heading(text_info, thresholds)
    /\ NumberedLevel(text_info, thresholds) = "None"
    /\ ExactLevel(text_info, thresholds) = "None"
    /\ FallbackLevel(text_info, thresholds) = "None"
    /\ pc' = "next_line"
    /\ UNCHANGED <<headingVars, outlineVars, thresholdVars, mergeVars, sectionVars, mainVars>>

NextClassify ==
    \/ SkipNonHeading
    \/ ClassifyNumbered
    \/ ClassifyExact
    \/ ClassifyFallback
    \/ LeaveUnclassified

SpecClassify == InitClassify /\ [][NextClassify]_vars

ThresholdOf(level) ==
    CASE level = "H1" -> thresholds.h1
      [] level = "H2" -> thresholds.h2
      [] level = "H3" -> thresholds.h3

\* C17: a bold unnumbered line outside the exact bands gets level L from the
\* fallback only if its size is below L's exact band (size <= L's threshold
\* minus 1.0) and, for H1 and H2, more than 0.5 above the next lower
\* threshold; a line above L's exact band does not get L from the fallback.
C17_FallbackBand ==
    assigned_by = "fallback" =>
        /\ text_info.is_bold
        /\ SizeOf(text_info) <= ThresholdOf(potential_level) - ExactBand
        /\ potential_level = "H1" => SizeOf(text_info) > thresholds.h2 + FallbackMargin
        /\ potential_level = "H2" => SizeOf(text_info) > thresholds.h3 + FallbackMargin

(***************************************************************************)
(* The title detector (identify_headings)                                  *)

MaxTitleLines == 2

\* the merged lines of page 0: texts, sizes in 1/100 pt, tops and left edges
TitleTexts ==
    { <<"Comprehensive", "Guide", "to", "Historic", "Sites", "of", "the", "Region">>,
      <<"Travel", "Guide", "Introduction", "to", "the", "Grand", "Region">>,
      <<"Grand", "Region", "Travel", "Planner", "overview", "of", "the", "Trip">>,
      <<"\\", "Trip", "\\", "Plan", "for", "friends">>,
      <<"RFP:", "To", "Develop", "the", "Ontario", "Digital", "Library", "Business",
        "Plan", "March", "2003">>,
      <<"Trip", "Plan">> }

TitleLineSizes == {1710, 3000}
\* (y0, x0): near the top at the margin, lower down, near the top far right
TitlePlaces == {<<100, 72>>, <<300, 72>>, <<100, 250>>}
LineWidth == 300

TitleTop == 250
CenterTolerance == 100
DefaultPageWidth == 600
MinCandidateWords == 5
MinTitleWords == 3

\* how often each font size occurs among the merged lines
CountsOfLines(lines) ==
    [x \in TitleLineSizes |-> Cardinality({u \in 1..Len(lines) : lines[u].font_size = x})]

\* the lowercase of a word, for the matches that ignore case
CaseFold(w) ==
    CASE w = "Introduction" -> "introduction"
      [] w = "RFP:" -> "rfp:"
      [] w = "To" -> "to"
      [] w = "Develop" -> "develop"
      [] w = "Ontario" -> "ontario"
      [] w = "Digital" -> "digital"
      [] w = "Library" -> "library"
      [] w = "Business" -> "business"
      [] w = "Plan" -> "plan"
      [] w = "March" -> "march"
      [] w = "Guide" -> "guide"
      [] w = "Comprehensive" -> "comprehensive"
      [] OTHER -> w

\* \d{4}
Years == {"2003"}

Boilerplate ==
    <<"rfp:", "to", "develop", "the", "ontario", "digital", "library", "business",
      "plan", "march">>

IntroPhrases ==
    { <<"introduction">>, <<"overview">>, <<"summary">>,
      <<"a", "comprehensive", "guide">>, <<"ultimate", "guide">>,
      <<"a", "culinary", "journey">>, <<"a", "historical", "journey">> }

\* the words from place k on start with the phrase, whatever the case
StartsWith(words, k, phrase) ==
    /\ k + Len(phrase) - 1 <= Len(words)
    /\ \A u \in 1..Len(phrase) : CaseFold(words[k + u - 1]) = phrase[u]

\* text.replace('\\', ''): the texts hold a backslash only as a word of its own
RECURSIVE StripBackslashes(_)
StripBackslashes(words) ==
    IF words = <<>> THEN <<>>
    ELSE IF words[1] = "\\" THEN StripBackslashes(Tail(words))
    ELSE <<words[1]>> \o StripBackslashes(Tail(words))

BoilerplateAt(words, k) ==
    /\ StartsWith(words, k, Boilerplate)
    /\ k + Len(Boilerplate) <= Len(words)
    /\ words[k + Len(Boilerplate)] \in Years

\* re.sub of the boilerplate phrase with ''
RECURSIVE RemoveBoilerplate(_)
RemoveBoilerplate(words) ==
    IF words = <<>> THEN <<>>
    ELSE IF BoilerplateAt(words, 1)
         THEN RemoveBoilerplate(SubSeq(words, Len(Boilerplate) + 2, Len(words)))
    ELSE <<words[1]>> \o RemoveBoilerplate(Tail(words))

\* title_text[:intro_match.start()].strip(): the words before the first intro
\* phrase; the texts hold the phrases only as whole words
TruncateAtIntro(words) ==
    LET starts == {k \in 1..Len(words) : \E phrase \in IntroPhrases : StartsWith(words, k, phrase)}
    IN  IF starts = {} THEN words
        ELSE SubSeq(words, 1, (CHOOSE k \in starts : \A m \in starts : k <= m) - 1)

CleanTitle(words) == TruncateAtIntro(RemoveBoilerplate(StripBackslashes(words)))

\* too short a cleaned title is discarded
TitleOrEmpty(words) == IF Len(CleanTitle(words)) < MinTitleWords THEN <<>> ELSE CleanTitle(words)

\* abs(text_center - page_center) < 100, both sides doubled
is_roughly_centered(line) ==
    LET page_width == IF line.x1 > 0 THEN line.x1 ELSE DefaultPageWidth
    IN  Abs((line.x0 + line.x1) - page_width) < 2 * CenterTolerance

MeetsCriteria(line, th) ==
    /\ line.y0 < TitleTop
    /\ line.is_bold
    /\ SizeOf(line) >= NinetyPercent(th.title)
    /\ is_roughly_centered(line)
    /\ Len(line.text) > MinCandidateWords

EndsOnlyWithATitle(line, th) ==
    MeetsCriteria(line, th) /\ Len(CleanTitle(line.text)) >= MinTitleWords

\* the scan takes the line and ends: the break is inside the if
EndsTitleScan(line, th) == MeetsCriteria(line, th)

TitleLine(text, size, bold, y0, x0) ==
    [text |-> text, font_size |-> size, is_bold |-> bold, y0 |-> y0, x0 |-> x0,
     x1 |-> x0 + LineWidth]

\* a document of one page of merged lines, its thresholds inferred
InitTitle ==
    /\ pc = "title"
    /\ \E n \in 1..MaxTitleLines :
          \E texts \in [1..n -> TitleTexts], sizes \in [1..n -> TitleLineSizes],
             bolds \in [1..n -> BOOLEAN], places \in [1..n -> TitlePlaces] :
              merged_lines = [u \in 1..n |->
                                 TitleLine(texts[u], sizes[u], bolds[u],
                                           places[u][1], places[u][2])]
    /\ thresholds = InferredThresholds(CountsOfLines(merged_lines))
    /\ all_font_sizes = <<>> /\ relevant_sizes = <<>> /\ floored = NoThresholds
    /\ line_i = 1
    /\ title_text = <<>>
    /\ text_info = NoLine
    /\ potential_level = "None"
    /\ assigned_by = "none"
    /\ OutlineIdle
    /\ MergeIdle
    /\ SectionsIdle
    /\ RankIdle
    /\ BatchIdle

InTitleScan == pc = "title" /\ line_i <= Len(merged_lines)

NextTitleLine ==
    /\ InTitleScan
    /\ ~EndsTitleScan(merged_lines[line_i], thresholds)
    /\ line_i' = line_i + 1
    /\ UNCHANGED <<pc, merged_lines, title_text, text_info, potential_level, assigned_by,
                   outlineVars, thresholdVars, mergeVars, sectionVars, mainVars>>

TakeTitle ==
    /\ InTitleScan
    /\ EndsTitleScan(merged_lines[line_i], thresholds)
    /\ Len(CleanTitle(merged_lines[line_i].text)) >= MinTitleWords
    /\ title_text' = TitleOrEmpty(merged_lines[line_i].text)
    /\ pc' = "classify"
    /\ UNCHANGED <<merged_lines, line_i, text_info, potential_level, assigned_by,
                   outlineVars, thresholdVars, mergeVars, sectionVars, mainVars>>

DiscardTitle ==
    /\ InTitleScan
    /\ EndsTitleScan(merged_lines[line_i], thresholds)
    /\ Len(CleanTitle(merged_lines[line_i].text)) < MinTitleWords
    /\ title_text' = TitleOrEmpty(merged_lines[line_i].text)
    /\ pc' = "classify"
    /\ UNCHANGED <<merged_lines, line_i, text_info, potential_level, assigned_by,
                   outlineVars, thresholdVars, mergeVars, sectionVars, mainVars>>

NoTitleFound ==
    /\ pc = "title"
    /\ line_i > Len(merged_lines)
    /\ pc' = "classify"
    /\ UNCHANGED <<headingVars, outlineVars, thresholdVars, mergeVars, sectionVars, mainVars>>

NextTitle ==
    \/ NextTitleLine
    \/ TakeTitle
    \/ DiscardTitle
    \/ NoTitleFound

SpecTitle == InitTitle /\ [][NextTitle]_vars

TitleCandidates ==
    {u \in 1..Len(merged_lines) : MeetsCriteria(merged_lines[u], thresholds)}

FirstCandidate == CHOOSE u \in TitleCandidates : \A v \in TitleCandidates : u <= v

\* C18: the title scan goes through the merged lines of page 0 in order and
\* ends at the first line that meets the candidate criteria; the title is that
\* line's cleaned text, or empty if the cleaned text has fewer than 3 words,
\* and no later line is used as the title.
C18_SingleTitleAttempt ==
    /\ pc = "title" =>
          /\ title_text = <<>>
          /\ \A u \in TitleCandidates : u >= line_i
    /\ pc = "classify" =>
          IF TitleCandidates = {} THEN title_text = <<>>
          ELSE /\ line_i = FirstCandidate
               /\ LET cleaned == CleanTitle(merged_lines[FirstCandidate].text)
                  IN  title_text = IF Len(cleaned) < 3 THEN <<>> ELSE cleaned

\* C18: the first candidate's cleaned text has two words, a later line meets
\* the criteria with a cleaned text of four words, and the title is empty.
C18_Witness ==
    /\ pc = "classify"
    /\ Len(merged_lines) = 2
    /\ TitleCandidates = {1, 2}
    /\ CleanTitle(merged_lines[1].text) = <<"Travel", "Guide">>
    /\ Len(CleanTitle(merged_lines[2].text)) = 4
    /\ title_text = <<>>

====
